---- MODULE Spec2Model ----
(***************************************************************************)
(* Model of schedule_filler.py: loading a weekly class table, computing    *)
(* the free slots of each day, filling them with synthetic activities and  *)
(* writing the merged, sorted table.                                       *)
(*                                                                         *)
(* A time of day is a number of half hours since midnight (every constant  *)
(* of the script is a multiple of 30 minutes).  A CSV field is a record    *)
(* [txt, times]: its text and the HH:MM:SS substrings the regular          *)
(* expression of parse_start_end_from_string finds in it, each a triple    *)
(* <<hour, minute, second>>.  A row is a sequence of fields.               *)
(* The Chinese labels of the script are written in ASCII:                  *)
(*   wake = 起床/准备/早餐, study = 自习, lunch = 午餐, dinner = 晚餐,             *)
(*   evening_rest = 晚上休息/回宿舍, rest_free = 休息/自由活动,                   *)
(*   day1..day7 = 星期1..星期7, dorm = 宿舍, canteen = 食堂, library = 图书馆.    *)
(***************************************************************************)
EXTENDS Integers, Sequences, FiniteSets, TLC

VARIABLES
    header_length,        \* len(header)
    file,                 \* the data rows the csv reader has not yielded yet
    schedules,            \* the defaultdict, in key insertion order
    rng,                  \* state of the shared random generator
    pc,                   \* position of the script
    days_todo,            \* the days main's loop has not processed yet
    day,                  \* main: day
    home_dorm,            \* main: home_dorm
    classes,              \* print_free_slots: classes
    idx,                  \* print_free_slots: position of the for loop
    current_time,         \* print_free_slots: current_time
    free_slots,           \* print_free_slots: free_slots
    filled_events,        \* fill_free_time's return value for the day
    all_events_to_write,  \* main: all_events_to_write
    written               \* the data rows handed to csv.writer

vars == <<header_length, file, schedules, rng, pc, days_todo, day, home_dorm,
          classes, idx, current_time, free_slots, filled_events,
          all_events_to_write, written>>

-----------------------------------------------------------------------------
(* Global settings *)

DAY_START == 14
DAY_END == 44
LUNCH_START == 23
LUNCH_END == 27
DINNER_START == 35
DINNER_END == 38
HOUR == 2
MIDNIGHT == 0
None == -1
EVENT_COLUMNS == 9
UNKNOWN_DAY == 8

DORMITORIES == << <<"dorm", "001">>, <<"dorm", "002">> >>
CANTEENS == << <<"canteen", "01">>, <<"canteen", "02">> >>
LIBRARIES == << <<"library", "1">>, <<"library", "2">> >>

day_map == [d \in {"day1", "day2", "day3", "day4", "day5", "day6", "day7"} |->
              CASE d = "day1" -> 1 [] d = "day2" -> 2 [] d = "day3" -> 3
                [] d = "day4" -> 4 [] d = "day5" -> 5 [] d = "day6" -> 6
                [] d = "day7" -> 7]

Max(a, b) == IF a >= b THEN a ELSE b
Min(a, b) == IF a <= b THEN a ELSE b

-----------------------------------------------------------------------------
(* Fields, time strings *)

Txt(s) == [txt |-> s, times |-> <<>>]

isoformat(t) == <<t \div 2, 30 * (t % 2), 0>>

fromisoformat(m) ==
    IF m[1] <= 23 /\ m[2] <= 59 /\ m[3] <= 59
    THEN 2 * m[1] + (m[2] \div 30)
    ELSE None

format_time_range(start_t, end_t) ==
    [txt |-> "range", times |-> <<isoformat(start_t), isoformat(end_t)>>]

parse_start_end_from_string(time_col_str) ==
    LET matches == time_col_str.times IN
    IF Len(matches) = 2
    THEN LET start_t == fromisoformat(matches[1])
             end_t == fromisoformat(matches[2])
         IN IF start_t = None \/ end_t = None THEN <<None, None>>
            ELSE <<start_t, end_t>>
    ELSE <<None, None>>

-----------------------------------------------------------------------------
(* Sorting: list.sort and sorted are stable *)

RECURSIVE LexLess(_, _)
LexLess(a, b) ==
    IF a = <<>> \/ b = <<>> THEN a = <<>> /\ b # <<>>
    ELSE IF Head(a) # Head(b) THEN Head(a) < Head(b)
    ELSE LexLess(Tail(a), Tail(b))

StableSort(seq, keys) ==
    LET n == Len(seq)
        Rank(i) == Cardinality({j \in 1..n :
                        \/ LexLess(keys[j], keys[i])
                        \/ keys[j] = keys[i] /\ j < i}) + 1
    IN [p \in 1..n |-> seq[CHOOSE i \in 1..n : Rank(i) = p]]

-----------------------------------------------------------------------------
(* The random generator: a draw takes the next element of the stream *)

random_choice(pool, n) == pool[(n % Len(pool)) + 1]

NextRng(n, draws) == (n + draws) % Len(DORMITORIES)

Seeds == 0..(Len(DORMITORIES) - 1)

-----------------------------------------------------------------------------
(* fill_free_time.  An event is the row create_new_row builds, with the      *)
(* start and end time it was given and the position of the free slot it      *)
(* was built for (0 for an original row).                                    *)

create_new_row(activity_name, day_name, loc_tuple, start_t, end_t, hl) ==
    LET event == <<Txt(activity_name), Txt(day_name), Txt("-"), Txt("-"),
                   Txt("-"), Txt("-"), Txt(loc_tuple[1]), Txt(loc_tuple[2]),
                   format_time_range(start_t, end_t)>>
        padded == [i \in 1..Max(EVENT_COLUMNS, hl) |->
                      IF i <= EVENT_COLUMNS THEN event[i] ELSE Txt("-")]
    IN SubSeq(padded, 1, hl)

Event(activity_name, day_name, loc_tuple, start_t, end_t, hl, k) ==
    [row |-> create_new_row(activity_name, day_name, loc_tuple, start_t, end_t, hl),
     start_t |-> start_t, end_t |-> end_t, slot |-> k]

TakesMealIgnoringFlag(ate, overlap_start, overlap_end) ==
    overlap_start < overlap_end

TakesMeal(ate, overlap_start, overlap_end) ==
    ~ate /\ overlap_start < overlap_end

ActualMealEndUncapped(overlap_start, overlap_end) ==
    overlap_start + HOUR

ActualMealEnd(overlap_start, overlap_end) ==
    overlap_start + Min(overlap_end - overlap_start, HOUR)

CursorAfterOverlap(actual_end, overlap_end) == overlap_end

CursorAfterMeal(actual_end, overlap_end) == actual_end

\* One free slot split around a meal window (lines 158-187 and 191-219):
\* the activity before the meal, the meal, the activity after it.
SplitSlot(day_name, hl, k, slot, window, ate, meal, after_name, after_loc, n) ==
    LET start == slot[1]
        end == slot[2]
        overlap_start == Max(start, window[1])
        overlap_end == Min(end, window[2])
        takes == TakesMeal(ate, overlap_start, overlap_end)
        before == IF takes /\ start < overlap_start
                  THEN <<Event("study", day_name, random_choice(LIBRARIES, n),
                               start, overlap_start, hl, k)>>
                  ELSE <<>>
        n1 == n + Len(before)
        actual_end == ActualMealEnd(overlap_start, overlap_end)
        eat == IF takes
               THEN <<Event(meal, day_name, random_choice(CANTEENS, n1),
                            overlap_start, actual_end, hl, k)>>
               ELSE <<>>
        n2 == n1 + Len(eat)
        cursor == IF takes THEN CursorAfterMeal(actual_end, overlap_end) ELSE start
        after == IF cursor < end
                 THEN <<Event(after_name, day_name,
                              IF after_loc = <<>> THEN random_choice(LIBRARIES, n2)
                              ELSE after_loc,
                              cursor, end, hl, k)>>
                 ELSE <<>>
        n3 == IF after_loc = <<>> THEN n2 + Len(after) ELSE n2
    IN [events |-> before \o eat \o after, ate |-> ate \/ takes, rng |-> n3]

RECURSIVE InteriorSlots(_, _, _, _, _, _, _)
InteriorSlots(day_name, slots, hl, k, ate_lunch, events, n) ==
    IF k > Len(slots) - 1 THEN [events |-> events, rng |-> n]
    ELSE LET r == SplitSlot(day_name, hl, k, slots[k],
                            <<LUNCH_START, LUNCH_END>>, ate_lunch, "lunch",
                            "study", <<>>, n)
         IN InteriorSlots(day_name, slots, hl, k + 1, r.ate,
                          events \o r.events, r.rng)

SingleSlot(day_name, slots, home, hl) ==
    <<Event("rest_free", day_name, home, slots[1][1], slots[1][2], hl, 1)>>

fill_free_time(day_name, slots, home, hl, n) ==
    IF slots = <<>> THEN [events |-> <<>>, rng |-> n]
    ELSE
    LET first == <<Event("wake", day_name, home, slots[1][1], slots[1][2], hl, 1)>>
        inner == IF Len(slots) > 2
                 THEN InteriorSlots(day_name, slots, hl, 2, FALSE, first, n)
                 ELSE [events |-> first, rng |-> n]
        last == Len(slots)
    IN IF Len(slots) > 1
       THEN LET r == SplitSlot(day_name, hl, last, slots[last],
                               <<DINNER_START, DINNER_END>>, FALSE, "dinner",
                               "evening_rest", home, inner.rng)
            IN [events |-> inner.events \o r.events, rng |-> r.rng]
       ELSE [events |-> inner.events \o SingleSlot(day_name, slots, home, hl),
             rng |-> inner.rng]

-----------------------------------------------------------------------------
(* print_free_slots *)

StartsAfterCursor(start_t, cur) == start_t > cur

AdvanceCursorAlways(cur, end_t) == end_t

AdvanceCursor(cur, end_t) == IF end_t > cur THEN end_t ELSE cur

TrailingSlotForgotten(cur) == <<>>

TrailingSlot(cur) == IF cur < DAY_END THEN << <<cur, DAY_END>> >> ELSE <<>>

-----------------------------------------------------------------------------
(* Inputs *)

MaxRows == 2
MaxClasses == 3
MaxUnsorted == 2

HeaderLengths == {8, 9, 10}
DayLabels == {"day1", "day2", "day9", ""}
LastFields == {format_time_range(18, 22), format_time_range(24, 36), Txt("-"),
               [txt |-> "range", times |-> << <<25, 0, 0>>, <<9, 0, 0>> >>]}

InputRow(n, d, f) ==
    [i \in 1..n |-> IF i = n THEN f
                    ELSE IF i = 1 THEN Txt("class")
                    ELSE IF i = 2 THEN Txt(d) ELSE Txt("-")]

FileRows(hl) ==
    {InputRow(n, d, f) : n \in {hl - 1, hl, hl + 1}, d \in DayLabels, f \in LastFields}

RECURSIVE SeqsUpTo(_, _)
SeqsUpTo(S, n) ==
    IF n = 0 THEN {<<>>}
    ELSE LET shorter == SeqsUpTo(S, n - 1)
         IN shorter \cup {Append(s, x) : s \in {t \in shorter : Len(t) = n - 1}, x \in S}

\* Times of day a class of the day under study starts or ends at:
\* 06:00, 09:00, 11:00, 12:00, 12:30, 18:00, 20:00, 23:00.
TimeGrid == <<12, 18, 22, 24, 25, 36, 40, 46>>

\* A class spans one or two steps of the grid, is empty, or ends one step
\* before it starts; one class spans the whole grid.
BusyIntervals ==
    {<<TimeGrid[p[1]], TimeGrid[p[2]]>> :
        p \in {q \in (1..Len(TimeGrid)) \X (1..Len(TimeGrid)) :
                  \/ q[2] - q[1] \in {-1, 0, 1, 2}
                  \/ q = <<1, Len(TimeGrid)>>}}

ClassRow(d, start_t, end_t) ==
    InputRow(EVENT_COLUMNS, d, format_time_range(start_t, end_t))

Class(d, start_t, end_t) == <<start_t, end_t, ClassRow(d, start_t, end_t)>>

Classes(d, ivs) == [i \in 1..Len(ivs) |-> Class(d, ivs[i][1], ivs[i][2])]

\* load_schedule returns the classes of a day sorted by start time, in any
\* order among equal start times.
Sorted(ivs) == \A i \in 1..(Len(ivs) - 1) : ivs[i][1] <= ivs[i + 1][1]

-----------------------------------------------------------------------------
(* The script *)

Original(c) == [row |-> c[3], start_t |-> c[1], end_t |-> c[2], slot |-> 0]

Originals(cls) == [i \in 1..Len(cls) |-> Original(cls[i])]

HasDay(sch, d) == \E i \in 1..Len(sch) : sch[i].day = d

AppendClass(sch, d, c) ==
    IF HasDay(sch, d)
    THEN [i \in 1..Len(sch) |->
            IF sch[i].day = d
            THEN [day |-> d, classes |-> Append(sch[i].classes, c)]
            ELSE sch[i]]
    ELSE Append(sch, [day |-> d, classes |-> <<c>>])

SortClasses(cls) == StableSort(cls, [i \in 1..Len(cls) |-> <<cls[i][1]>>])

DayOrdinal(d) == IF d \in DOMAIN day_map THEN day_map[d] ELSE UNKNOWN_DAY

SortedDays(sch) ==
    StableSort([i \in 1..Len(sch) |-> sch[i].day],
               [i \in 1..Len(sch) |-> <<DayOrdinal(sch[i].day)>>])

ClassesOf(sch, d) == (CHOOSE e \in {sch[i] : i \in 1..Len(sch)} : e.day = d).classes

get_sort_key(row) ==
    LET day_key == IF Len(row) > 1 THEN DayOrdinal(row[2].txt) ELSE UNKNOWN_DAY
        start_t == IF Len(row) > 0 THEN parse_start_end_from_string(row[Len(row)])[1]
                   ELSE None
    IN IF start_t # None THEN <<day_key, start_t>> ELSE <<day_key, MIDNIGHT>>

LoadRow ==
    /\ pc = "load"
    /\ file # <<>>
    /\ LET row == Head(file)
           d == IF Len(row) > 1 THEN row[2].txt ELSE ""
           t == parse_start_end_from_string(row[Len(row)])
       IN schedules' =
            IF Len(row) < header_length THEN schedules
            ELSE IF d # "" /\ t[1] # None /\ t[2] # None
                 THEN AppendClass(schedules, d, <<t[1], t[2], row>>)
                 ELSE schedules
    /\ file' = Tail(file)
    /\ UNCHANGED <<header_length, rng, pc, days_todo, day, home_dorm, classes, idx,
                   current_time, free_slots, filled_events, all_events_to_write,
                   written>>

FinishLoad ==
    /\ pc = "load"
    /\ file = <<>>
    /\ schedules' = [i \in 1..Len(schedules) |->
                       [day |-> schedules[i].day,
                        classes |-> SortClasses(schedules[i].classes)]]
    /\ IF schedules = <<>>
       THEN pc' = "done" /\ days_todo' = <<>>
       ELSE pc' = "days" /\ days_todo' = SortedDays(schedules)
    /\ UNCHANGED <<header_length, file, rng, day, home_dorm, classes, idx,
                   current_time, free_slots, filled_events, all_events_to_write,
                   written>>

StartDay ==
    /\ pc = "days"
    /\ days_todo # <<>>
    /\ day' = Head(days_todo)
    /\ days_todo' = Tail(days_todo)
    /\ classes' = ClassesOf(schedules, Head(days_todo))
    /\ home_dorm' = random_choice(DORMITORIES, rng)
    /\ rng' = NextRng(rng, 1)
    /\ all_events_to_write' = all_events_to_write \o Originals(classes')
    /\ current_time' = DAY_START
    /\ free_slots' = <<>>
    /\ idx' = 1
    /\ pc' = "loop"
    /\ UNCHANGED <<header_length, file, schedules, filled_events, written>>

FreeSlotStep ==
    /\ pc = "loop"
    /\ idx <= Len(classes)
    /\ LET start_t == classes[idx][1]
           end_t == classes[idx][2]
       IN /\ free_slots' = IF StartsAfterCursor(start_t, current_time)
                           THEN Append(free_slots, <<current_time, start_t>>)
                           ELSE free_slots
          /\ current_time' = AdvanceCursor(current_time, end_t)
    /\ idx' = idx + 1
    /\ UNCHANGED <<header_length, file, schedules, rng, pc, days_todo, day,
                   home_dorm, classes, filled_events, all_events_to_write, written>>

FreeSlotEnd ==
    /\ pc = "loop"
    /\ idx > Len(classes)
    /\ free_slots' = free_slots \o TrailingSlot(current_time)
    /\ pc' = "fill"
    /\ UNCHANGED <<header_length, file, schedules, rng, days_todo, day, home_dorm,
                   classes, idx, current_time, filled_events, all_events_to_write,
                   written>>

FillDay ==
    /\ pc = "fill"
    /\ LET r == fill_free_time(day, free_slots, home_dorm, header_length, rng)
       IN /\ filled_events' = r.events
          /\ rng' = NextRng(r.rng, 0)
          /\ all_events_to_write' = all_events_to_write \o r.events
    /\ pc' = "days"
    /\ UNCHANGED <<header_length, file, schedules, days_todo, day, home_dorm,
                   classes, idx, current_time, free_slots, written>>

SortAndWrite ==
    /\ pc = "days"
    /\ days_todo = <<>>
    /\ written' = StableSort(all_events_to_write,
                             [i \in 1..Len(all_events_to_write) |->
                                 get_sort_key(all_events_to_write[i].row)])
    /\ pc' = "done"
    /\ UNCHANGED <<header_length, file, schedules, rng, days_todo, day, home_dorm,
                   classes, idx, current_time, free_slots, filled_events,
                   all_events_to_write>>

Init ==
    /\ header_length \in HeaderLengths
    /\ file \in SeqsUpTo(FileRows(header_length), MaxRows)
    /\ schedules = <<>>
    /\ rng \in Seeds
    /\ pc = "load"
    /\ days_todo = <<>>
    /\ day = ""
    /\ home_dorm = <<>>
    /\ classes = <<>>
    /\ idx = 1
    /\ current_time = DAY_START
    /\ free_slots = <<>>
    /\ filled_events = <<>>
    /\ all_events_to_write = <<>>
    /\ written = <<>>

Next ==
    \/ LoadRow
    \/ FinishLoad
    \/ StartDay
    \/ FreeSlotStep
    \/ FreeSlotEnd
    \/ FillDay
    \/ SortAndWrite

Spec == Init /\ [][Next]_vars

\* One day of main's loop, from the call of print_free_slots on a class list
\* load_schedule returned for the day to the end of fill_free_time.
InitDay ==
    /\ header_length = EVENT_COLUMNS
    /\ file = <<>>
    /\ \E n \in 1..MaxClasses :
          \E ivs \in [1..n -> BusyIntervals] :
             Sorted(ivs) /\ classes = Classes("day1", ivs)
    /\ schedules = <<[day |-> "day1", classes |-> classes]>>
    /\ home_dorm = random_choice(DORMITORIES, 0)
    /\ rng = NextRng(0, 1)
    /\ pc = "loop"
    /\ days_todo = <<>>
    /\ day = "day1"
    /\ idx = 1
    /\ current_time = DAY_START
    /\ free_slots = <<>>
    /\ filled_events = <<>>
    /\ all_events_to_write = Originals(classes)
    /\ written = <<>>

NextDay ==
    \/ FreeSlotStep
    \/ FreeSlotEnd
    \/ FillDay

SpecDay == InitDay /\ [][NextDay]_vars

\* print_free_slots alone, applied to class lists in any order.
InitSlots ==
    /\ header_length = EVENT_COLUMNS
    /\ file = <<>>
    /\ \E n \in 0..MaxUnsorted :
          \E ivs \in [1..n -> BusyIntervals] : classes = Classes("day1", ivs)
    /\ schedules = <<>>
    /\ home_dorm = random_choice(DORMITORIES, 0)
    /\ rng = NextRng(0, 1)
    /\ pc = "loop"
    /\ days_todo = <<>>
    /\ day = "day1"
    /\ idx = 1
    /\ current_time = DAY_START
    /\ free_slots = <<>>
    /\ filled_events = <<>>
    /\ all_events_to_write = <<>>
    /\ written = <<>>

NextSlots ==
    \/ FreeSlotStep
    \/ FreeSlotEnd

SpecSlots == InitSlots /\ [][NextSlots]_vars

-----------------------------------------------------------------------------
(* Properties *)

HALF_HOURS_PER_DAY == 48

Instants == 0..(HALF_HOURS_PER_DAY - 1)

\* The half hour starting at t lies in [a, b).
Covers(a, b, t) == a <= t /\ t < b

InDay(t) == Covers(DAY_START, DAY_END, t)

\* print_free_slots has returned for the current day.
SlotsDone == day # "" /\ pc \in {"fill", "days", "done"}

\* fill_free_time has returned for the current day.
FilledDay == day # "" /\ pc \in {"days", "done"}

Label(e) == e.row[1].txt

Location(e) == <<e.row[7].txt, e.row[8].txt>>

EventsOf(k) == LET OfSlot(e) == e.slot = k IN SelectSeq(filled_events, OfSlot)

IsMeal(e) == Label(e) \in {"lunch", "dinner"}

WindowStart(e) == IF Label(e) = "lunch" THEN LUNCH_START ELSE DINNER_START

WindowEnd(e) == IF Label(e) = "lunch" THEN LUNCH_END ELSE DINNER_END

\* The overlap of the free slot of meal e with the window of the meal.
OverlapStart(e) == Max(free_slots[e.slot][1], WindowStart(e))

OverlapEnd(e) == Min(free_slots[e.slot][2], WindowEnd(e))

OverlapsLunch(slot) == Max(slot[1], LUNCH_START) < Min(slot[2], LUNCH_END)

Interior == 2..(Len(free_slots) - 1)

BusyCover(t) == Cardinality({i \in 1..Len(classes) :
                                Covers(classes[i][1], classes[i][2], t)})

FreeCover(t) == Cardinality({i \in 1..Len(free_slots) :
                                Covers(free_slots[i][1], free_slots[i][2], t)})

Covered(t) ==
    \/ \E i \in 1..Len(classes) : Covers(classes[i][1], classes[i][2], t)
    \/ \E i \in 1..Len(free_slots) : Covers(free_slots[i][1], free_slots[i][2], t)

\* Every class lies within the day boundary, ends no earlier than it starts,
\* and no two classes overlap.
WellFormed ==
    /\ \A i \in 1..Len(classes) :
          DAY_START <= classes[i][1] /\ classes[i][1] <= classes[i][2]
          /\ classes[i][2] <= DAY_END
    /\ \A i, j \in 1..Len(classes) :
          i < j => Max(classes[i][1], classes[j][1]) >= Min(classes[i][2], classes[j][2])

NonInverted == \A i \in 1..Len(classes) : classes[i][1] <= classes[i][2]

FreeSlotsAscending ==
    /\ \A i \in 1..Len(free_slots) : free_slots[i][1] < free_slots[i][2]
    /\ \A i \in 1..(Len(free_slots) - 1) : free_slots[i][2] <= free_slots[i + 1][1]

\* C1: for every free slot of the day, the events fill_free_time built for it,
\* in emission order, start at the slot's start, each start where the previous
\* one ended, end at the slot's end, and cover every instant of the slot once.
C1_CoveragePreservation ==
    FilledDay =>
      \A k \in 1..Len(free_slots) :
        LET ev == EventsOf(k) IN
          /\ Len(ev) >= 1
          /\ ev[1].start_t = free_slots[k][1]
          /\ ev[Len(ev)].end_t = free_slots[k][2]
          /\ \A i \in 1..(Len(ev) - 1) : ev[i + 1].start_t = ev[i].end_t
          /\ \A t \in Instants :
               Covers(free_slots[k][1], free_slots[k][2], t) =>
                 Cardinality({i \in 1..Len(ev) :
                                 Covers(ev[i].start_t, ev[i].end_t, t)}) = 1

\* C2 as claimed: for every start-sorted class list of a day, every instant of
\* [DAY_START, DAY_END) lies in exactly one class or free slot, and no class or
\* free slot covers an instant outside it.
C2_Tiling ==
    SlotsDone =>
      \A t \in Instants :
        BusyCover(t) + FreeCover(t) = IF InDay(t) THEN 1 ELSE 0

\* C2 amended: for every start-sorted class list, every instant of
\* [DAY_START, DAY_END) lies in at least one class or free slot; when the
\* classes lie within the day boundary, end no earlier than they start and do
\* not overlap each other, the classes and the free slots tile the day exactly.
C2_TilingOfWellFormedDays ==
    SlotsDone =>
      /\ \A t \in Instants : InDay(t) => Covered(t)
      /\ WellFormed =>
           \A t \in Instants :
             BusyCover(t) + FreeCover(t) = IF InDay(t) THEN 1 ELSE 0

C2_Witness ==
    /\ SlotsDone
    /\ WellFormed
    /\ Len(classes) >= 2
    /\ \A i \in 1..Len(classes) : classes[i][1] < classes[i][2]
    /\ Len(free_slots) >= 3

\* C3: when the day has exactly one free slot, fill_free_time returns exactly
\* one event, labelled rest/free time, at the home location, spanning the slot.
C3_SingleSlotSingleRest ==
    (FilledDay /\ Len(free_slots) = 1) =>
      /\ Len(filled_events) = 1
      /\ Label(filled_events[1]) = "rest_free"
      /\ Location(filled_events[1]) = home_dorm
      /\ filled_events[1].start_t = free_slots[1][1]
      /\ filled_events[1].end_t = free_slots[1][2]

\* C4: after the final sort, the key (weekday ordinal of the row's day label,
\* start time of the interval the row stands for) never decreases from one
\* written row to the next; unknown day labels have the largest ordinal.
C4_SortOrder ==
    pc = "done" =>
      \A i \in 1..(Len(written) - 1) :
        LET a == <<DayOrdinal(written[i].row[2].txt), written[i].start_t>>
            b == <<DayOrdinal(written[i + 1].row[2].txt), written[i + 1].start_t>>
        IN a = b \/ LexLess(a, b)

\* C5: fill_free_time emits at most one lunch, and every interior free slot
\* after the one that received lunch becomes one study event spanning it.
C5_SingleLunch ==
    FilledDay =>
      /\ Cardinality({i \in 1..Len(filled_events) :
                         Label(filled_events[i]) = "lunch"}) <= 1
      /\ \A i \in 1..Len(filled_events) :
           Label(filled_events[i]) = "lunch" =>
             \A k \in Interior :
               k > filled_events[i].slot =>
                 /\ Len(EventsOf(k)) = 1
                 /\ Label(EventsOf(k)[1]) = "study"
                 /\ EventsOf(k)[1].start_t = free_slots[k][1]
                 /\ EventsOf(k)[1].end_t = free_slots[k][2]

C5_Witness ==
    /\ FilledDay
    /\ \E j, k \in Interior :
         /\ j < k
         /\ OverlapsLunch(free_slots[j])
         /\ OverlapsLunch(free_slots[k])
         /\ free_slots[j][2] <= free_slots[k][1]
    /\ \E i \in 1..Len(filled_events) : Label(filled_events[i]) = "lunch"

\* C6: every lunch or dinner event starts at max(slot start, window start),
\* lasts min(length of the overlap of slot and window, one hour), and lies
\* inside the slot and the window; it lasts one hour when the slot contains
\* the window.
C6_MealCap ==
    FilledDay =>
      \A i \in 1..Len(filled_events) :
        LET e == filled_events[i] IN
        IsMeal(e) =>
          /\ e.start_t = OverlapStart(e)
          /\ e.end_t - e.start_t = Min(OverlapEnd(e) - OverlapStart(e), HOUR)
          /\ free_slots[e.slot][1] <= e.start_t /\ e.end_t <= free_slots[e.slot][2]
          /\ WindowStart(e) <= e.start_t /\ e.end_t <= WindowEnd(e)
          /\ (free_slots[e.slot][1] <= WindowStart(e)
              /\ WindowEnd(e) <= free_slots[e.slot][2]) =>
                e.end_t - e.start_t = Min(WindowEnd(e) - WindowStart(e), HOUR)

C6_Witness ==
    /\ FilledDay
    /\ \E i, j \in 1..Len(filled_events) :
         /\ Label(filled_events[i]) = "lunch"
         /\ OverlapEnd(filled_events[i]) - OverlapStart(filled_events[i]) < HOUR
         /\ Label(filled_events[j]) = "dinner"
         /\ free_slots[filled_events[j].slot][1] < DINNER_START
         /\ free_slots[filled_events[j].slot][2] > DINNER_END

\* C7: every row load_schedule admits, every row fill_free_time builds and
\* every row written has exactly as many fields as the header.
C7_FieldCount ==
    /\ \A i \in 1..Len(schedules) :
         \A j \in 1..Len(schedules[i].classes) :
           Len(schedules[i].classes[j][3]) = header_length
    /\ \A i \in 1..Len(filled_events) : Len(filled_events[i].row) = header_length
    /\ \A i \in 1..Len(written) : Len(written[i].row) = header_length

\* C8: every free slot print_free_slots returns for a start-sorted class list
\* lies within the day boundary, is not empty, and contains no instant of a
\* class (stated for the class lists in which every class ends no earlier
\* than it starts, so that no refutation rests on a class that ends before
\* it starts).
C8_FreeWithinDay ==
    (SlotsDone /\ NonInverted) =>
      \A i \in 1..Len(free_slots) :
        /\ DAY_START <= free_slots[i][1]
        /\ free_slots[i][1] < free_slots[i][2]
        /\ free_slots[i][2] <= DAY_END
        /\ \A t \in Instants :
             Covers(free_slots[i][1], free_slots[i][2], t) => BusyCover(t) = 0

\* C9 as claimed: for any class list, in any order, the cursor never decreases
\* and the free slots emitted so far are non-empty, ascending and disjoint.
C9_MonotoneCursor ==
    [][current_time' >= current_time /\ FreeSlotsAscending']_vars

\* C9 amended: for any class list, in any order, the cursor never decreases
\* and every emitted free slot is non-empty; when every class ends no earlier
\* than it starts, the emitted free slots are ascending and disjoint.
C9_MonotoneCursorNonInverted ==
    [][/\ current_time' >= current_time
       /\ \A i \in 1..Len(free_slots') : free_slots'[i][1] < free_slots'[i][2]
       /\ NonInverted => FreeSlotsAscending']_vars

C9_Witness ==
    /\ pc = "fill"
    /\ NonInverted
    /\ \E i \in 1..(Len(classes) - 1) :
         /\ classes[i + 1][1] < classes[i][1]
         /\ classes[i + 1][2] > classes[i][1]
    /\ Len(free_slots) >= 2

\* C10 as claimed: when the overlap of a slot with its meal window is longer
\* than one hour, no event covers the time from the end of the meal to the
\* end of the overlap (stated for the class lists in which every class ends
\* no earlier than it starts).
C10_RemainderDropped ==
    (FilledDay /\ NonInverted) =>
      \A i \in 1..Len(filled_events) :
        LET e == filled_events[i] IN
        (IsMeal(e) /\ OverlapEnd(e) - OverlapStart(e) > HOUR) =>
          \A t \in Instants :
            Covers(e.end_t, OverlapEnd(e), t) =>
              \A j \in 1..Len(filled_events) :
                ~Covers(filled_events[j].start_t, filled_events[j].end_t, t)

\* C10 amended: when the overlap is longer than one hour, the event emitted
\* right after the meal (study after lunch, evening rest after dinner) starts
\* at the end of the meal and runs to the end of the slot, so it covers the
\* rest of the overlap.
C10_RemainderCovered ==
    FilledDay =>
      \A i \in 1..Len(filled_events) :
        LET e == filled_events[i] IN
        (IsMeal(e) /\ OverlapEnd(e) - OverlapStart(e) > HOUR) =>
          /\ i < Len(filled_events)
          /\ filled_events[i + 1].slot = e.slot
          /\ filled_events[i + 1].start_t = e.end_t
          /\ filled_events[i + 1].end_t = free_slots[e.slot][2]
          /\ Label(filled_events[i + 1]) =
               IF Label(e) = "lunch" THEN "study" ELSE "evening_rest"

C10_Witness ==
    /\ FilledDay
    /\ WellFormed
    /\ \E i \in 1..(Len(filled_events) - 1) :
         /\ Label(filled_events[i]) = "lunch"
         /\ OverlapEnd(filled_events[i]) - OverlapStart(filled_events[i]) > HOUR
         /\ filled_events[i].end_t < OverlapEnd(filled_events[i])
         /\ Label(filled_events[i + 1]) = "study"

====
